---- MODULE Spec2Model ----
(***************************************************************************)
(* The encrypted vault of MERN_Password11: the VaultItem collection, the   *)
(* six routes of routes/vault.js (list, create, update, delete, search,    *)
(* verify-master-key) and the persistence behaviour of mongoose that the   *)
(* routes rely on (timestamps, delta save, versioning of array paths).     *)
(*                                                                         *)
(* Strings are sequences of one-character strings, so that the empty       *)
(* string is << >> and substring and regular-expression matching can be    *)
(* computed.  A request body is a function whose domain holds the fields   *)
(* the client sent: a field missing from the JSON is missing from DOMAIN.  *)
(***************************************************************************)
EXTENDS Integers, Sequences, FiniteSets, TLC

VARIABLES
    items,      \* the VaultItem collection: a set of documents
    nextId,     \* the next _id the driver generates
    now,        \* the server clock (Date.now())
    users,      \* the User collection: a set of user documents
    req,        \* per request slot: the request it serves or served last
    stale,      \* the slots whose loaded document holds an outdated __v
    deleted     \* history: the ids that a delete request removed

vars == <<items, nextId, now, users, req, stale, deleted>>

----------------------------------------------------------------------------
(* Bounds of the model *)

\* documents the collection ever receives (ids 1..MaxItems)
MaxItems == 2

\* the clock runs from 0 to MaxClock
MaxClock == 1

----------------------------------------------------------------------------
(* Inputs *)

Users == {"u1", "u2"}

\* request slots: requests in different slots interleave at their awaits
Procs == {"p1", "p2"}

\* ids a request may name: every id the driver generates, and one it never does
Ids == 1..(MaxItems + 1)

T1 == <<"a", "B">>

T2 == <<"c">>

TagX == <<"x", "a">>

E1 == <<"e1">>

E2 == <<"e2">>

Iv1 == <<"v1">>

Iv2 == <<"v2">>

\* bodies that pass validation; the third carries no tags
ValidBodies ==
    { [title |-> T1, encryptedData |-> E1, iv |-> Iv1, tags |-> <<TagX>>],
      [title |-> T2, encryptedData |-> E1, iv |-> Iv1, tags |-> <<TagX>>],
      [title |-> T1, encryptedData |-> E2, iv |-> Iv2] }

\* bodies with a required field empty or missing
InvalidBodies ==
    { [title |-> << >>, encryptedData |-> E2, iv |-> Iv2, tags |-> << >>],
      [title |-> T2, iv |-> Iv2, tags |-> << >>],
      [title |-> T2, encryptedData |-> E2, iv |-> << >>] }

Bodies == ValidBodies \cup InvalidBodies

----------------------------------------------------------------------------
(* express-validator and the request body *)

\* body(f).notEmpty(): the field is present and not the empty string
notEmpty(body, f) == f \in DOMAIN body /\ body[f] # << >>

\* a chain that lacks body('iv').notEmpty()
validationOkWithoutIv(body) ==
    /\ notEmpty(body, "title")
    /\ notEmpty(body, "encryptedData")

\* validationResult(req).isEmpty() for the three checks of create and update
validationOk(body) ==
    /\ notEmpty(body, "title")
    /\ notEmpty(body, "encryptedData")
    /\ notEmpty(body, "iv")

\* tags || []
tagsOrEmpty(body) == IF "tags" \in DOMAIN body THEN body.tags ELSE << >>

----------------------------------------------------------------------------
(* Request slots *)

\* a slot: the request (op, userId, id, arg), the document findOne loaded,
\* and, once the request is done, the response (status, message, items)
Request(phase, op, userId, id, arg, found, status, message, list) ==
    [phase |-> phase, op |-> op, userId |-> userId, id |-> id, arg |-> arg,
     found |-> found, status |-> status, message |-> message, items |-> list]

\* a request that has been answered
Done(op, userId, id, arg, status, message, list) ==
    Request("done", op, userId, id, arg, {}, status, message, list)

NoRequest == Request("idle", "none", "u1", 0, << >>, {}, 0, "", << >>)

\* the slot can take a new request: it is not between two awaits of one
Free(p) == req[p].phase # "saving"

----------------------------------------------------------------------------
(* The collection *)

\* a lookup by _id alone, without the owner
findOneAnyOwner(id, userId) == {d \in items : d.id = id}

\* VaultItem.findOne({ _id, userId }): the matching documents (at most one)
findOne(id, userId) == {d \in items : d.id = id /\ d.userId = userId}

\* a schema whose title has lowercase: true
NewVaultItemLowercaseTitle(userId, body) ==
    [id |-> nextId, userId |-> userId,
     title |-> [k \in 1..Len(body.title) |-> IF body.title[k] = "B" THEN "b"
                                             ELSE body.title[k]],
     encryptedData |-> body.encryptedData,
     iv |-> body.iv,
     tags |-> IF "tags" \in DOMAIN body THEN body.tags ELSE << >>,
     createdAt |-> now, updatedAt |-> now]

\* new VaultItem({...}) followed by save(): _id from the driver, createdAt
\* and updatedAt from the timestamps option
NewVaultItem(userId, body) ==
    [id |-> nextId, userId |-> userId,
     title |-> body.title, encryptedData |-> body.encryptedData,
     iv |-> body.iv, tags |-> tagsOrEmpty(body),
     createdAt |-> now, updatedAt |-> now]

\* the clock advances between requests
Tick ==
    /\ now < MaxClock
    /\ now' = now + 1
    /\ UNCHANGED <<items, nextId, users, req, stale, deleted>>

\* POST /items
CreateItem(p, c, body) ==
    /\ Free(p)
    /\ IF ~validationOk(body)
       THEN /\ req' = [req EXCEPT ![p] = Done("create", c, 0, body, 400,
                                              "Validation failed", << >>)]
            /\ UNCHANGED <<items, nextId>>
       ELSE /\ nextId <= MaxItems
            /\ items' = items \cup {NewVaultItem(c, body)}
            /\ nextId' = nextId + 1
            /\ req' = [req EXCEPT ![p] = Done("create", c, nextId, body, 201,
                                              "Item saved successfully",
                                              <<NewVaultItem(c, body)>>)]
    /\ UNCHANGED <<now, users, stale, deleted>>

----------------------------------------------------------------------------
(* PUT /items/:id : findOne, then assign the four fields and save() *)

MutableFields == {"title", "encryptedData", "iv", "tags"}

\* the value the handler assigns to field f of the loaded document
Assigned(body, f) == IF f = "tags" THEN tagsOrEmpty(body) ELSE body[f]

\* the loaded document after lines 102-105
assignFields(doc, body) ==
    [doc EXCEPT !.title = body.title, !.encryptedData = body.encryptedData,
                !.iv = body.iv, !.tags = tagsOrEmpty(body)]

\* a handler that assigns tags only when the body carries them
modifiedPathsKeepTags(doc, body) ==
    {f \in MutableFields :
        /\ f = "tags" => "tags" \in DOMAIN body
        /\ doc[f] # Assigned(body, f)}

\* mongoose marks a path modified only when the assigned value differs from
\* the loaded one; save() sends $set for the modified paths alone
modifiedPaths(doc, body) == {f \in MutableFields : doc[f] # Assigned(body, f)}

\* $set of a whole array puts the loaded __v in the query of save() and
\* increments the stored __v.  __v only grows, so the loaded __v differs from
\* the stored one exactly when such a save was applied to the document after
\* the slot loaded it: the model keeps that fact (stale), not the number.
versioned(doc, body) == "tags" \in modifiedPaths(doc, body)

\* the document updateOne() of save() matches: _id, and __v when versioned
saveTarget(p, doc, body) ==
    {d \in items : /\ d.id = doc.id
                   /\ (versioned(doc, body) => p \notin stale)}

\* the slots that loaded doc and whose __v a versioned save of p outdates
outdated(p, doc, body) ==
    IF versioned(doc, body)
    THEN {q \in Procs \ {p} :
             req[q].phase = "saving" /\ \E f \in req[q].found : f.id = doc.id}
    ELSE {}

\* a schema without timestamps: save() does not touch updatedAt
applyDeltaWithoutTimestamp(d, doc, body) ==
    [f \in DOMAIN d |->
        IF f \in modifiedPaths(doc, body) THEN Assigned(body, f) ELSE d[f]]

\* the stored document after the $set of save()
applyDelta(d, doc, body) ==
    [f \in DOMAIN d |->
        IF f \in modifiedPaths(doc, body) THEN Assigned(body, f)
        ELSE IF f = "updatedAt" THEN now
        ELSE d[f]]

\* the in-memory document the handler returns after a save that wrote
savedDoc(doc, body) == [assignFields(doc, body) EXCEPT !.updatedAt = now]

\* lines 79-100: validation, then the owner-scoped lookup
UpdateFind(p, c, id, body) ==
    /\ Free(p)
    /\ IF ~validationOk(body)
       THEN req' = [req EXCEPT ![p] = Done("update", c, id, body, 400,
                                           "Validation failed", << >>)]
       ELSE IF findOne(id, c) = {}
       THEN req' = [req EXCEPT ![p] = Done("update", c, id, body, 404,
                                           "Item not found", << >>)]
       ELSE req' = [req EXCEPT ![p] =
                       Request("saving", "update", c, id, body,
                               findOne(id, c), 0, "", << >>)]
    /\ stale' = stale \ {p}
    /\ UNCHANGED <<items, nextId, now, users, deleted>>

\* lines 102-113, and 115-121 when save() throws
UpdateSave(p) ==
    /\ req[p].phase = "saving"
    /\ \E doc \in req[p].found :
        LET answer(status, message, list) ==
                req' = [req EXCEPT ![p] =
                           Done("update", req[p].userId, req[p].id, req[p].arg,
                                status, message, list)]
        IN  IF modifiedPaths(doc, req[p].arg) = {}
            THEN \* nothing to write: save() only checks the document exists
                 /\ UNCHANGED items
                 /\ stale' = stale \ {p}
                 /\ IF \E d \in items : d.id = doc.id
                    THEN answer(200, "Item updated successfully", <<doc>>)
                    ELSE answer(500, "Failed to update item", << >>)
            ELSE IF saveTarget(p, doc, req[p].arg) = {}
            THEN \* DocumentNotFoundError or VersionError, caught at line 115
                 /\ UNCHANGED items
                 /\ stale' = stale \ {p}
                 /\ answer(500, "Failed to update item", << >>)
            ELSE /\ stale' = (stale \cup outdated(p, doc, req[p].arg)) \ {p}
                 /\ \E d \in saveTarget(p, doc, req[p].arg) :
                       items' = (items \ {d})
                                   \cup {applyDelta(d, doc, req[p].arg)}
                 /\ answer(200, "Item updated successfully",
                           <<savedDoc(doc, req[p].arg)>>)
    /\ UNCHANGED <<nextId, now, users, deleted>>

\* a handler that calls deleteOne and does not look at what it removed
DeleteItemUnchecked(p, c, id) ==
    /\ Free(p)
    /\ items' = {d \in items : ~(d.id = id /\ d.userId = c)}
    /\ deleted' = deleted \cup {id}
    /\ req' = [req EXCEPT ![p] = Done("delete", c, id, << >>, 200,
                                      "Item deleted successfully", << >>)]
    /\ UNCHANGED <<nextId, now, users, stale>>

\* a handler that looks the document up with findOne and never removes it
DeleteItemWithoutRemoval(p, c, id) ==
    /\ Free(p)
    /\ IF {d \in items : d.id = id /\ d.userId = c} = {}
       THEN /\ req' = [req EXCEPT ![p] = Done("delete", c, id, << >>, 404,
                                              "Item not found", << >>)]
            /\ UNCHANGED deleted
       ELSE /\ deleted' = deleted \cup {id}
            /\ req' = [req EXCEPT ![p] = Done("delete", c, id, << >>, 200,
                                              "Item deleted successfully",
                                              << >>)]
    /\ UNCHANGED <<items, nextId, now, users, stale>>

\* DELETE /items/:id : findOneAndDelete is one atomic operation of the store
DeleteItem(p, c, id) ==
    /\ Free(p)
    /\ IF findOne(id, c) = {}
       THEN /\ req' = [req EXCEPT ![p] = Done("delete", c, id, << >>, 404,
                                              "Item not found", << >>)]
            /\ UNCHANGED <<items, deleted>>
       ELSE /\ items' = items \ findOne(id, c)
            /\ deleted' = deleted \cup {id}
            /\ req' = [req EXCEPT ![p] = Done("delete", c, id, << >>, 200,
                                              "Item deleted successfully",
                                              << >>)]
    /\ UNCHANGED <<nextId, now, users, stale>>

----------------------------------------------------------------------------
(* GET /items and GET /search *)

\* 'i': letters compare without case
Lower(ch) == IF ch = "A" THEN "a" ELSE IF ch = "B" THEN "b" ELSE ch

Whitespace == {" "}

\* query.trim() === ''
trimIsEmpty(s) == \A k \in 1..Len(s) : s[k] \in Whitespace

\* !query || query.trim() === ''
blankQuery(qs) ==
    \/ "query" \notin DOMAIN qs
    \/ qs.query = << >>
    \/ trimIsEmpty(qs.query)

\* The regular expressions of the model: a literal character, '.', and an
\* item followed by '*'.  '(' and '[' open a group or a class that nothing
\* closes, and '*' needs an item to repeat: RegExp and $regex reject those.
regexValid(pat) ==
    /\ \A k \in 1..Len(pat) : pat[k] \notin {"(", "["}
    /\ \A k \in 1..Len(pat) :
          pat[k] = "*" => (k > 1 /\ pat[k - 1] # "*")

\* one pattern character against one character of the subject, option 'i'
charMatches(pc, ch) == pc = "." \/ Lower(pc) = Lower(ch)

RECURSIVE matchHere(_, _, _, _)
\* pat from position i on matches a prefix of str from position j on
matchHere(pat, i, str, j) ==
    IF i > Len(pat) THEN TRUE
    ELSE IF i < Len(pat) /\ pat[i + 1] = "*"
    THEN \/ matchHere(pat, i + 2, str, j)
         \/ /\ j <= Len(str)
            /\ charMatches(pat[i], str[j])
            /\ matchHere(pat, i, str, j + 1)
    ELSE /\ j <= Len(str)
         /\ charMatches(pat[i], str[j])
         /\ matchHere(pat, i + 1, str, j + 1)

\* { $regex: query, $options: 'i' }: the pattern matches somewhere in str
regexTest(pat, str) == \E j \in 1..(Len(str) + 1) : matchHere(pat, 1, str, j)

\* the $or of lines 172-175: the title, or some element of tags
searchFilter(d, pat) ==
    \/ regexTest(pat, d.title)
    \/ \E k \in 1..Len(d.tags) : regexTest(pat, d.tags[k])

\* .sort({ createdAt: -1 }): every order of the documents with createdAt
\* descending; the store fixes no order among equal createdAt
sortByCreatedAtDesc(docs) ==
    {s \in [1..Cardinality(docs) -> docs] :
        /\ \A i, j \in 1..Cardinality(docs) : i # j => s[i] # s[j]
        /\ \A i, j \in 1..Cardinality(docs) :
              i < j => s[i].createdAt >= s[j].createdAt}

\* VaultItem.find({ userId })
findByUser(userId) == {d \in items : d.userId = userId}

\* GET /items
ListItems(p, c) ==
    /\ Free(p)
    /\ \E list \in sortByCreatedAtDesc(findByUser(c)) :
          req' = [req EXCEPT ![p] = Done("list", c, 0, << >>, 200, "", list)]
    /\ UNCHANGED <<items, nextId, now, users, stale, deleted>>

\* GET /search?query=...
SearchItems(p, c, qs) ==
    /\ Free(p)
    /\ IF blankQuery(qs)
       THEN \E list \in sortByCreatedAtDesc(findByUser(c)) :
               req' = [req EXCEPT ![p] = Done("search", c, 0, qs, 200, "", list)]
       ELSE IF ~regexValid(qs.query)
       THEN req' = [req EXCEPT ![p] = Done("search", c, 0, qs, 500,
                                           "Search failed", << >>)]
       ELSE \E list \in sortByCreatedAtDesc(
                           {d \in findByUser(c) : searchFilter(d, qs.query)}) :
               req' = [req EXCEPT ![p] = Done("search", c, 0, qs, 200, "", list)]
    /\ UNCHANGED <<items, nextId, now, users, stale, deleted>>

----------------------------------------------------------------------------
(* POST /verify-master-key *)

K1 == <<"k", "1">>

K2 == <<"k", "2">>

\* request bodies: no masterKey, an empty one, and two keys
KeyBodies ==
    { << >>, [masterKey |-> << >>], [masterKey |-> K1], [masterKey |-> K2] }

\* the verifier stored for a master key: a one-way hash, not the key
bcryptHash(key) == <<"$2a$">> \o key

\* bcrypt.compare(masterKey, user.masterKey)
bcryptCompare(key, hash) == hash = bcryptHash(key)

\* User.findById(req.userId)
findById(userId) == {u \in users : u.id = userId}

\* !masterKey
noMasterKey(body) == "masterKey" \notin DOMAIN body \/ body.masterKey = << >>

VerifyMasterKey(p, c, body) ==
    /\ Free(p)
    /\ IF noMasterKey(body)
       THEN req' = [req EXCEPT ![p] = Done("verify", c, 0, body, 400,
                                           "Master key is required", << >>)]
       ELSE IF findById(c) = {}
       THEN req' = [req EXCEPT ![p] = Done("verify", c, 0, body, 404,
                                           "User not found", << >>)]
       ELSE \E u \in findById(c) :
               IF ~bcryptCompare(body.masterKey, u.masterKey)
               THEN req' = [req EXCEPT ![p] =
                               Done("verify", c, 0, body, 400,
                                    "Invalid master key", << >>)]
               ELSE req' = [req EXCEPT ![p] =
                               Done("verify", c, 0, body, 200,
                                    "Master key verified successfully", << >>)]
    /\ UNCHANGED <<items, nextId, now, users, stale, deleted>>

----------------------------------------------------------------------------
(* Specifications *)

\* the accounts of the callers, each with the verifier of its master key
Accounts == {[id |-> u, masterKey |-> bcryptHash(K1)] : u \in Users}

\* query strings: no query, empty, blank, and patterns
QueryStrings ==
    { << >>, [query |-> << >>], [query |-> <<" ">>],
      [query |-> <<"A", "b">>], [query |-> <<"x">>], [query |-> <<"e1">>],
      [query |-> <<".">>], [query |-> <<"(">>], [query |-> <<"z", "*">>] }

Init ==
    /\ items = {}
    /\ nextId = 1
    /\ now = 0
    /\ users = Accounts
    /\ req = [p \in Procs |-> NoRequest]
    /\ stale = {}
    /\ deleted = {}

\* the server: requests of all callers, interleaved at their awaits
Next ==
    \/ Tick
    \/ \E p \in Procs, c \in Users, body \in Bodies : CreateItem(p, c, body)
    \/ \E p \in Procs, c \in Users, id \in Ids, body \in Bodies :
          UpdateFind(p, c, id, body)
    \/ \E p \in Procs : UpdateSave(p)
    \/ \E p \in Procs, c \in Users, id \in Ids : DeleteItem(p, c, id)
    \/ \E p \in Procs, c \in Users : ListItems(p, c)
    \/ \E p \in Procs, c \in Users, qs \in QueryStrings : SearchItems(p, c, qs)
    \/ \E p \in Procs, c \in Users, body \in KeyBodies :
          VerifyMasterKey(p, c, body)

Spec == Init /\ [][Next]_vars

\* one request at a time, each served to its end before the next arrives
SeqNext ==
    \/ \E c \in Users, body \in Bodies : CreateItem("p1", c, body)
    \/ \E c \in Users, id \in Ids, body \in Bodies : UpdateFind("p1", c, id, body)
    \/ UpdateSave("p1")
    \/ \E c \in Users, id \in Ids : DeleteItem("p1", c, id)
    \/ \E c \in Users : ListItems("p1", c)
    \/ \E c \in Users, qs \in QueryStrings : SearchItems("p1", c, qs)

SeqSpec == Init /\ [][SeqNext]_vars

\* the write requests of one caller in both slots, interleaved at the awaits
\* of the update handler
RaceNext ==
    \/ \E p \in Procs, body \in ValidBodies : CreateItem(p, "u1", body)
    \/ \E p \in Procs, id \in Ids, body \in ValidBodies :
          UpdateFind(p, "u1", id, body)
    \/ \E p \in Procs : UpdateSave(p)
    \/ \E p \in Procs, id \in Ids : DeleteItem(p, "u1", id)

RaceSpec == Init /\ [][RaceNext]_vars

\* one request at a time while the clock advances
ClockNext ==
    \/ Tick
    \/ \E body \in Bodies : CreateItem("p1", "u1", body)
    \/ \E id \in Ids, body \in Bodies : UpdateFind("p1", "u1", id, body)
    \/ UpdateSave("p1")
    \/ \E id \in Ids : DeleteItem("p1", "u1", id)
    \/ ListItems("p1", "u1")

ClockSpec == Init /\ [][ClockNext]_vars

\* lists and searches of both callers while documents are created and
\* deleted and the clock runs: slot p1 writes and lists, slot p2 searches
OrderNext ==
    \/ Tick
    \/ \E c \in Users, body \in ValidBodies : CreateItem("p1", c, body)
    \/ \E c \in Users, id \in Ids : DeleteItem("p1", c, id)
    \/ \E c \in Users : ListItems("p1", c)
    \/ \E c \in Users, qs \in QueryStrings : SearchItems("p2", c, qs)

OrderSpec == Init /\ [][OrderNext]_vars

\* the accounts the User collection may hold: each caller has none, or one
\* with the verifier of K1 or of K2
AccountSets ==
    {a \in SUBSET {[id |-> u, masterKey |-> bcryptHash(k)] :
                      u \in Users, k \in {K1, K2}} :
        \A x, y \in a : x.id = y.id => x = y}

VerifyInit ==
    /\ items = {}
    /\ nextId = 1
    /\ now = 0
    /\ users \in AccountSets
    /\ req = [p \in Procs |-> NoRequest]
    /\ stale = {}
    /\ deleted = {}

VerifyNext ==
    \E p \in Procs, c \in Users, body \in KeyBodies : VerifyMasterKey(p, c, body)

VerifySpec == VerifyInit /\ [][VerifyNext]_vars

----------------------------------------------------------------------------
(* The auth middleware in front of the routes.                             *)

\* req.userId of a request on which no middleware set it
NoUser == "none"

\* the routes of the vault router
Routes == {"list", "create", "update", "delete", "search", "verify"}

\* what a request presents: no token, or a token naming a user that passes
\* or fails verification
Tokens ==
    {[user |-> NoUser, valid |-> FALSE]} \cup [user : Users, valid : BOOLEAN]

\* the identity the middleware resolves, NoUser when it resolves none
auth(token) == IF token.valid THEN token.user ELSE NoUser

\* a router whose search route is declared without the middleware
authMountedExceptSearch(op) == op \in Routes \ {"search"}

\* the routes declared with auth as their first middleware: all six
authMounted(op) == op \in Routes

\* the requests of the six routes: route, :id and body or query string
Arrivals ==
    [op : {"list"}, id : {0}, arg : {<< >>}]
    \cup [op : {"create"}, id : {0}, arg : Bodies]
    \cup [op : {"update"}, id : Ids, arg : Bodies]
    \cup [op : {"delete"}, id : Ids, arg : {<< >>}]
    \cup [op : {"search"}, id : {0}, arg : QueryStrings]
    \cup [op : {"verify"}, id : {0}, arg : KeyBodies]

\* a request with its token reaches the router
Arrive(p, token, a) ==
    /\ req[p].phase \in {"idle", "done"}
    /\ req' = [req EXCEPT ![p] =
                  [phase |-> "arrived", op |-> a.op, userId |-> NoUser,
                   id |-> a.id, arg |-> a.arg, found |-> {}, status |-> 0,
                   message |-> "", items |-> << >>, token |-> token]]
    /\ UNCHANGED <<items, nextId, now, users, stale, deleted>>

\* req.userId as the handler of the route reads it
resolved(p) ==
    IF authMounted(req[p].op) THEN auth(req[p].token) ELSE NoUser

\* the middleware answers 401 and the handler is not called
Unauthorized(p) ==
    /\ req[p].phase = "arrived"
    /\ authMounted(req[p].op)
    /\ auth(req[p].token) = NoUser
    /\ req' = [req EXCEPT ![p] = Done(req[p].op, NoUser, req[p].id, req[p].arg,
                                      401, "Unauthorized", << >>)]
    /\ UNCHANGED <<items, nextId, now, users, stale, deleted>>

\* the request of slot p is for the route and the middleware, where it is
\* mounted, called next()
Passes(p, op) ==
    /\ req[p].phase = "arrived"
    /\ req[p].op = op
    /\ authMounted(op) => auth(req[p].token) # NoUser

\* the router: one request at a time, each with the token it presents
AuthNext ==
    \/ \E token \in Tokens, a \in Arrivals : Arrive("p1", token, a)
    \/ Unauthorized("p1")
    \/ Passes("p1", "list") /\ ListItems("p1", resolved("p1"))
    \/ Passes("p1", "create")
          /\ CreateItem("p1", resolved("p1"), req["p1"].arg)
    \/ Passes("p1", "update")
          /\ UpdateFind("p1", resolved("p1"), req["p1"].id, req["p1"].arg)
    \/ UpdateSave("p1")
    \/ Passes("p1", "delete")
          /\ DeleteItem("p1", resolved("p1"), req["p1"].id)
    \/ Passes("p1", "search")
          /\ SearchItems("p1", resolved("p1"), req["p1"].arg)
    \/ Passes("p1", "verify")
          /\ VerifyMasterKey("p1", resolved("p1"), req["p1"].arg)

AuthSpec == Init /\ [][AuthNext]_vars

----------------------------------------------------------------------------
(* Vocabulary of the properties *)

\* slot p answers a request in this step
Answers(p) == req'[p] # req[p] /\ req'[p].phase = "done"

\* slot p takes a new request and answers it in this step
Serves(p) == Answers(p) /\ req[p].phase # "saving"

\* the tags a body submits: none submitted is the empty sequence
SubmittedTags(body) == IF "tags" \in DOMAIN body THEN body.tags ELSE << >>

\* the four mutable fields a valid body submits, and those a document holds
SubmittedFields(body) ==
    <<body.title, body.encryptedData, body.iv, SubmittedTags(body)>>

StoredFields(d) == <<d.title, d.encryptedData, d.iv, d.tags>>

\* the documents a response carries
Returned(r) == {r.items[k] : k \in 1..Len(r.items)}

\* a body with title, encryptedData and iv present and not empty
WellFormed(body) ==
    \A f \in {"title", "encryptedData", "iv"} :
        f \in DOMAIN body /\ body[f] # << >>

----------------------------------------------------------------------------
(* C1: owner isolation.  Whatever requests were served, a list or search  *)
(* answered to caller B carries only documents of B, and an update (with a *)
(* well-formed body) or a delete that B addresses to the id of a document  *)
(* of another owner is answered 404 and leaves the collection as it was.   *)
(* An update whose body fails validation is answered 400 before any        *)
(* lookup (C9), and equally changes nothing.                               *)

C1_Step ==
    \A p \in Procs : Serves(p) =>
        LET r == req'[p]
            foreign == \E d \in items : d.id = r.id /\ d.userId # r.userId
        IN  /\ r.op \in {"list", "search"} =>
                \A d \in Returned(r) : d.userId = r.userId
            /\ (r.op = "delete" /\ foreign) =>
                (r.status = 404 /\ items' = items)
            /\ (r.op = "update" /\ foreign) =>
                /\ r.status = IF WellFormed(r.arg) THEN 404 ELSE 400
                /\ r.items = << >>
                /\ items' = items

C1_OwnerIsolation == [][C1_Step]_vars

\* caller B was answered 404 for an update of a document that another owner
\* holds, and B's own list was not empty
C1_Witness ==
    /\ req["p1"].phase = "done"
    /\ req["p1"].op = "update"
    /\ req["p1"].status = 404
    /\ WellFormed(req["p1"].arg)
    /\ \E d \in items : d.id = req["p1"].id /\ d.userId # req["p1"].userId
    /\ \E d \in items : d.userId = req["p1"].userId

----------------------------------------------------------------------------
(* C2: update is a full replace.  When the owner's update is answered 200  *)
(* (requests served one at a time), the stored document holds exactly the  *)
(* title, encryptedData, iv and tags of that update, tags being empty when *)
(* the update carried none; every list the owner can then be answered      *)
(* carries that document; no other document changed; and no step changes   *)
(* the id, the owner or the createdAt of a document.                       *)

C2_Step ==
    /\ \A d \in items, e \in items' :
          d.id = e.id => (e.userId = d.userId /\ e.createdAt = d.createdAt)
    /\ \A p \in Procs :
          (req[p].phase = "saving" /\ Answers(p) /\ req'[p].status = 200) =>
              LET r == req'[p]
              IN  \E old \in items, new \in items' :
                     /\ old.id = r.id /\ new.id = r.id
                     /\ StoredFields(new) = SubmittedFields(r.arg)
                     /\ items' \ {new} = items \ {old}
                     /\ \A c \in Users : c = r.userId =>
                           \A list \in (sortByCreatedAtDesc(findByUser(c)))' :
                               {list[k] : k \in 1..Len(list)} \cap
                                   {d \in items' : d.id = r.id} = {new}

C2_UpdateIsFullReplace == [][C2_Step]_vars

\* an update without tags was answered 200 and the stored document, last
\* written after its creation, has no tags
C2_Witness ==
    /\ req["p1"].phase = "done"
    /\ req["p1"].op = "update"
    /\ req["p1"].status = 200
    /\ "tags" \notin DOMAIN req["p1"].arg
    /\ \E d \in items : /\ d.id = req["p1"].id
                        /\ d.tags = << >>
                        /\ d.updatedAt > d.createdAt

----------------------------------------------------------------------------
(* C3: concurrent updates of one document are last-write-wins as a unit.   *)
(* When the two slots have each been answered 200 for an update of the     *)
(* same document, the stored title, encryptedData, iv and tags are the     *)
(* complete field set of one of the two requests, never a mixture.         *)
(* The handler loads, assigns and saves, and save() writes only the paths  *)
(* that differ from the loaded document, so two requests that loaded the   *)
(* same document and change different fields are merged.                   *)

C3_LastWriteWinsAsUnit ==
    \A d \in items :
        (\A p \in Procs : /\ req[p].phase = "done"
                          /\ req[p].op = "update"
                          /\ req[p].status = 200
                          /\ req[p].id = d.id)
        => \E p \in Procs : StoredFields(d) = SubmittedFields(req[p].arg)

----------------------------------------------------------------------------
(* C4: record vanished mid-update.  An update that loaded a document which *)
(* a delete then removed is answered 404, and its write does not recreate  *)
(* the document.  The handler answers 500: save() throws when its          *)
(* updateOne matches nothing, and the catch of line 115 reports a server   *)
(* error.                                                                  *)

C4_Step ==
    \A p \in Procs :
        (req[p].phase = "saving" /\ req[p].id \in deleted /\ Answers(p)) =>
            /\ req'[p].status = 404
            /\ \A d \in items' : d.id # req[p].id

C4_VanishedMidUpdateIsNotFound == [][C4_Step]_vars

----------------------------------------------------------------------------
(* C5: verify-master-key for a caller whose account exists.  The answer is *)
(* a true result exactly when the presented key is the key behind the      *)
(* stored verifier; a wrong key that is not empty gets a normal answer (no *)
(* error status) with a false result; only an empty key is a failure (400).*)
(* The handler answers a wrong key with status 400, the status of          *)
(* InvalidInput.                                                           *)

PresentedKey(body) ==
    IF "masterKey" \in DOMAIN body THEN body.masterKey ELSE << >>

C5_VerifyResult ==
    \A p \in Procs :
        (/\ req[p].phase = "done"
         /\ req[p].op = "verify"
         /\ \E u \in users : u.id = req[p].userId) =>
            LET key == PresentedKey(req[p].arg)
                matches == \E u \in users : /\ u.id = req[p].userId
                                            /\ u.masterKey = bcryptHash(key)
            IN  /\ req[p].status = 200 <=> (key # << >> /\ matches)
                /\ (key # << >> /\ ~matches) => req[p].status < 400
                /\ req[p].status = 400 => key = << >>

----------------------------------------------------------------------------
(* C6: search with a query that is not blank is answered with exactly the  *)
(* caller's documents whose title, or one of whose tags, contains the      *)
(* query as a literal substring without regard to case, whatever           *)
(* characters the query holds.  The handler hands the query to $regex and  *)
(* to new RegExp() unescaped: '.' matches any character and '(' is no      *)
(* pattern at all.                                                         *)

\* s contains q as a substring, letters compared without case
ContainsNoCase(s, q) ==
    \E j \in 0..(Len(s) - Len(q)) :
        \A k \in 1..Len(q) : Lower(s[j + k]) = Lower(q[k])

\* the query is present and holds a character that is not white space
NotBlank(qs) ==
    /\ "query" \in DOMAIN qs
    /\ \E k \in 1..Len(qs.query) : qs.query[k] # " "

C6_SearchIsLiteralSubstring ==
    \A p \in Procs :
        (req[p].phase = "done" /\ req[p].op = "search" /\ NotBlank(req[p].arg))
        => /\ req[p].status = 200
           /\ Returned(req[p]) =
                 {d \in items :
                     /\ d.userId = req[p].userId
                     /\ \/ ContainsNoCase(d.title, req[p].arg.query)
                        \/ \E k \in 1..Len(d.tags) :
                              ContainsNoCase(d.tags[k], req[p].arg.query)}

----------------------------------------------------------------------------
(* C7: delete is permanent.  Once a delete of an id has been answered 200, *)
(* no document with that id is in the collection again, every delete or    *)
(* update (with a well-formed body) that is then requested for the id is   *)
(* answered 404, no list or search answer carries a document with the id,  *)
(* and no create is given the id.                                          *)

C7_Step ==
    /\ \A d \in items' : d.id \notin deleted'
    /\ \A p \in Procs : Serves(p) =>
          LET r == req'[p]
          IN  /\ (r.op = "delete" /\ r.id \in deleted) => r.status = 404
              /\ (r.op = "update" /\ r.id \in deleted) =>
                    r.status = IF WellFormed(r.arg) THEN 404 ELSE 400
              /\ \A d \in Returned(r) : d.id \notin deleted
              /\ r.op = "create" => r.id \notin deleted

C7_DeleteIsPermanent == [][C7_Step]_vars

\* after a delete of the id succeeded, its owner asked to update it and to
\* the owner's other request a second document was created
C7_Witness ==
    /\ req["p1"].phase = "done"
    /\ req["p1"].op = "update"
    /\ req["p1"].status = 404
    /\ WellFormed(req["p1"].arg)
    /\ req["p1"].id \in deleted
    /\ \E d \in items : d.id > req["p1"].id

----------------------------------------------------------------------------
(* C8 as claimed: every update answered 200 strictly increases updatedAt,  *)
(* also when the four submitted fields equal the stored ones; createdAt <= *)
(* updatedAt always, and updatedAt never decreases.                        *)

C8_Claimed_Step ==
    /\ \A d \in items' : d.createdAt <= d.updatedAt
    /\ \A d \in items, e \in items' : d.id = e.id => d.updatedAt <= e.updatedAt
    /\ \A p \in Procs :
          (req[p].phase = "saving" /\ Answers(p) /\ req'[p].status = 200) =>
              \A d \in items, e \in items' :
                  (d.id = req[p].id /\ e.id = req[p].id) =>
                      d.updatedAt < e.updatedAt

C8_Step ==
    /\ \A d \in items' : d.createdAt <= d.updatedAt
    /\ \A d \in items, e \in items' : d.id = e.id => d.updatedAt <= e.updatedAt
    /\ \A p \in Procs :
          (req[p].phase = "saving" /\ Answers(p) /\ req'[p].status = 200) =>
              \A loaded \in req[p].found, d \in items, e \in items' :
                  (d.id = req[p].id /\ e.id = req[p].id) =>
                      e.updatedAt =
                          IF StoredFields(loaded) # SubmittedFields(req[p].arg)
                          THEN now
                          ELSE d.updatedAt

----------------------------------------------------------------------------
(* C9: a validation failure has no effect.  A create or an update whose    *)
(* title, encryptedData or iv is missing or empty is answered 400, and the *)
(* collection is exactly as it was: no document is added, none changes.    *)

C9_Step ==
    \A p \in Procs :
        (/\ Serves(p)
         /\ req'[p].op \in {"create", "update"}
         /\ ~WellFormed(req'[p].arg)) =>
            /\ req'[p].status = 400
            /\ req'[p].items = << >>
            /\ items' = items
            /\ nextId' = nextId

C9_ValidationFailureHasNoEffect == [][C9_Step]_vars

\* an update of a document of the caller was answered 400 and the document
\* is in the collection
C9_Witness ==
    /\ req["p1"].phase = "done"
    /\ req["p1"].op = "update"
    /\ req["p1"].status = 400
    /\ \E d \in items : d.id = req["p1"].id /\ d.userId = req["p1"].userId

----------------------------------------------------------------------------
(* C10: a create answered 201 adds exactly one document; its owner is the  *)
(* caller, its id is the id of no document created before, its title,      *)
(* encryptedData, iv and tags are the submitted ones (tags empty when none *)
(* were sent); the answer carries that document, every list the caller can *)
(* then be answered carries it, and no other document changes.             *)

C10_Step ==
    \A p \in Procs :
        (Serves(p) /\ req'[p].op = "create" /\ req'[p].status = 201) =>
            LET r == req'[p]
            IN  \E d \in items' :
                   /\ d \notin items
                   /\ items' = items \cup {d}
                   /\ d.userId = r.userId
                   /\ d.id = r.id
                   /\ \A e \in items : e.id # d.id
                   /\ d.id \notin deleted
                   /\ StoredFields(d) = SubmittedFields(r.arg)
                   /\ r.items = <<d>>
                   /\ \A c \in Users : c = r.userId =>
                         \A list \in (sortByCreatedAtDesc(findByUser(c)))' :
                             \E k \in 1..Len(list) : list[k] = d

C10_CreateAddsOneRecord == [][C10_Step]_vars

\* a create without tags was answered 201 while the collection held another
\* document, and the new document is stored with no tags
C10_Witness ==
    /\ req["p1"].phase = "done"
    /\ req["p1"].op = "create"
    /\ req["p1"].status = 201
    /\ "tags" \notin DOMAIN req["p1"].arg
    /\ \E d, e \in items : /\ d.id = req["p1"].id
                           /\ d.tags = << >>
                           /\ e.id # d.id

----------------------------------------------------------------------------
(* C11: a request to any of the six vault routes whose token resolves to   *)
(* no caller is answered 401 Unauthorized; the answer carries no document  *)
(* and is the same whatever the body, the id and the stores hold, and the  *)
(* vault items and the accounts are as they were.                          *)

C11_Step ==
    \A p \in Procs :
        (/\ req[p].phase = "arrived"
         /\ ~req[p].token.valid
         /\ req'[p] # req[p]) =>
            /\ req'[p] = Done(req[p].op, NoUser, req[p].id, req[p].arg,
                              401, "Unauthorized", << >>)
            /\ UNCHANGED <<items, nextId, users, stale, deleted>>

C11_UnauthorizedBeforeStoreAccess == [][C11_Step]_vars

\* a search with a token that fails verification was answered 401 while the
\* user the token names owns a document
C11_Witness ==
    /\ req["p1"].phase = "done"
    /\ req["p1"].op = "search"
    /\ req["p1"].status = 401
    /\ req["p1"].userId = NoUser
    /\ items # {}

----------------------------------------------------------------------------
(* C12: a list, and a search whose query is absent, empty or white space   *)
(* only, is answered with all and only the caller's documents, each once,  *)
(* ordered by createdAt descending; and a blank search and a list of one   *)
(* caller over the same documents carry them in the same order.            *)

\* the request is a list, or a search with a blank query
ListLike(r) == r.op = "list" \/ (r.op = "search" /\ ~NotBlank(r.arg))

C12_Step ==
    \A p \in Procs :
        (Serves(p) /\ ListLike(req'[p])) =>
            LET r == req'[p]
                mine == {d \in items : d.userId = r.userId}
            IN  /\ r.status = 200
                /\ Returned(r) = mine
                /\ Len(r.items) = Cardinality(mine)
                /\ \A i, j \in 1..Len(r.items) :
                      i < j => r.items[i].createdAt >= r.items[j].createdAt
                /\ \A q \in Procs \ {p} :
                      (/\ req[q].phase = "done"
                       /\ ListLike(req[q])
                       /\ req[q].op # r.op
                       /\ req[q].userId = r.userId
                       /\ Returned(req[q]) = mine) => req[q].items = r.items

C12_BlankSearchIsList == [][C12_Step]_vars

----------------------------------------------------------------------------
(* C13: verify-master-key is answered 404 whenever the caller has no       *)
(* account, whatever the presented key, the empty key included; an empty   *)
(* key is answered 400 when the account exists.  Whatever the answer, the  *)
(* accounts and the vault items are as they were, and the answer is a      *)
(* status with one of the handler's fixed messages: no stored hash and     *)
(* nothing computed from it.                                               *)

C13_Step ==
    \A p \in Procs :
        (Serves(p) /\ req'[p].op = "verify") =>
            LET r == req'[p]
                account == {u \in users : u.id = r.userId}
            IN  /\ account = {} => r.status = 404
                /\ (account # {} /\ PresentedKey(r.arg) = << >>) =>
                      r.status = 400
                /\ r.message \in {"Master key is required", "User not found",
                                  "Invalid master key",
                                  "Master key verified successfully"}
                /\ r.items = << >>
                /\ UNCHANGED <<users, items>>

C13_NoAccountIsNotFound == [][C13_Step]_vars

----------------------------------------------------------------------------
(* C14: delete is one atomic conditional step on (id, owner).  A delete is *)
(* answered 200 exactly when the caller's document with the id is stored   *)
(* at that step, and 404 otherwise; a 200 removes that document and no     *)
(* other, a 404 removes none.  So of the deletes of one document, however  *)
(* they interleave with each other and with updates, one is answered 200,  *)
(* every other 404, and the document is absent afterwards.                 *)

C14_Step ==
    \A p \in Procs :
        (Serves(p) /\ req'[p].op = "delete") =>
            LET r == req'[p]
                target == {d \in items : d.id = r.id /\ d.userId = r.userId}
            IN  /\ r.status = IF target # {} THEN 200 ELSE 404
                /\ items' = items \ target
                /\ \A d \in items' : d.id = r.id => d.userId # r.userId
                /\ r.status = 200 =>
                      /\ r.id \notin deleted
                      /\ \A q \in Procs \ {p} :
                            ~(/\ req[q].phase = "done"
                              /\ req[q].op = "delete"
                              /\ req[q].id = r.id
                              /\ req[q].status = 200)

C14_DeleteIsAtomic == [][C14_Step]_vars

\* two deletes of one document by its owner were answered, one 200 and one
\* 404, the document is gone and another one is stored
C14_Witness ==
    /\ req["p1"].phase = "done" /\ req["p2"].phase = "done"
    /\ req["p1"].op = "delete" /\ req["p2"].op = "delete"
    /\ req["p1"].id = req["p2"].id
    /\ req["p1"].userId = req["p2"].userId
    /\ req["p1"].status = 404 /\ req["p2"].status = 200
    /\ req["p1"].id \in deleted
    /\ items # {}

====
